---- MODULE Spec2Model ----
(***************************************************************************)
(* Model of lib/config.ts of blpapi-http: the configuration module.        *)
(*                                                                         *)
(* The module's initialization block declares the convict schema, loads    *)
(* the optional config file, validates, builds the derived option bundles  *)
(* (otherConf), and, when https and a CRL are configured, registers a      *)
(* filesystem watch whose callback re-reads the CRL and emits 'change'.    *)
(* get(name) looks a name up in otherConf first and in the convict store   *)
(* otherwise.                                                              *)
(***************************************************************************)
EXTENDS Integers, Sequences, FiniteSets, TLC

VARIABLES
    argv,           \* optimist.argv: flag name -> value (only supplied flags)
    processEnv,     \* process.env: variable name -> value (only set variables)
    cfgFile,        \* contents of the config file: dotted key -> value
    fsUnreadable,   \* files that readFileSync cannot read at the moment
    crlFile,        \* current contents of the CRL file on disk
    phase,          \* "unloaded" | "ready" | "failed" (initialization block)
    startupError,   \* the exception that ended the initialization block
    convictConf,    \* the convict store: dotted key -> resolved value
    otherConf,      \* the derived bundles: bundle name -> bundle
    heap,           \* Buffer objects still referenced: buffer id -> contents
    watching,       \* TRUE once fs.watch(crlPath, ...) has been called
    pendingEvents,  \* filesystem-change events not yet dispatched
    fsEvents,       \* number of filesystem-change events raised so far
    listeners,      \* subscribers registered on emitter for 'change'
    cycle,          \* what the latest run of the watch callback did
    emitted,        \* number of emitter.emit('change', ...) calls so far
    lastRead        \* the latest read of serverOptions.httpsServerOptions.crl

vars == <<argv, processEnv, cfgFile, fsUnreadable, crlFile, phase, startupError,
          convictConf, otherConf, heap, watching, pendingEvents, fsEvents,
          listeners, cycle, emitted, lastRead>>

(***************************************************************************)
(* Bounds of the model.                                                    *)
(***************************************************************************)
MaxOverriddenKeys == 1  \* entries given a value on the CLI, in the environment or in the file
MaxEvents == 2      \* filesystem-change events raised on the CRL file
NumContents == 2    \* distinct contents the CRL file can take

(***************************************************************************)
(* The schema (config.ts lines 31-229).                                    *)
(***************************************************************************)
SchemaKeys ==
    {"api.host", "api.port", "api.authenticationMode", "api.authenticationAppName",
     "port", "expiration",
     "https.enable", "https.ca", "https.cert", "https.key", "https.crl",
     "logging.stdout", "logging.stdoutLevel", "logging.logfile",
     "logging.logfileLevel", "logging.reqBody", "logging.clientDetail",
     "service.name", "service.version", "maxBodySize",
     "throttle.burst", "throttle.rate",
     "websocket.socket-io.enable", "websocket.socket-io.port",
     "websocket.ws.enable", "websocket.ws.port",
     "longpoll.maxbuffersize", "longpoll.pollfrequency", "longpoll.polltimeout"}

\* The interior nodes of the schema tree.
SchemaGroups ==
    {"api", "https", "logging", "service", "throttle", "websocket",
     "websocket.socket-io", "websocket.ws", "longpoll"}

\* A variant of SchemaFormat that declares websocket.ws.port as a plain integer.
SchemaFormatWsPortAsInteger(k) ==
    CASE k \in {"api.port", "port", "websocket.socket-io.port"} -> "port"
      [] k = "api.host" -> "ipaddress"
      [] k \in {"expiration", "maxBodySize", "throttle.burst", "throttle.rate",
                "longpoll.maxbuffersize", "longpoll.pollfrequency",
                "longpoll.polltimeout", "websocket.ws.port"} -> "integer"
      [] k \in {"https.enable", "logging.stdout", "logging.reqBody",
                "logging.clientDetail", "websocket.socket-io.enable",
                "websocket.ws.enable"} -> "Boolean"
      [] OTHER -> "String"

\* format: of each schema entry
SchemaFormat(k) ==
    CASE k \in {"api.port", "port", "websocket.socket-io.port",
                "websocket.ws.port"} -> "port"
      [] k = "api.host" -> "ipaddress"
      [] k \in {"expiration", "maxBodySize", "throttle.burst", "throttle.rate",
                "longpoll.maxbuffersize", "longpoll.pollfrequency",
                "longpoll.polltimeout"} -> "integer"
      [] k \in {"https.enable", "logging.stdout", "logging.reqBody",
                "logging.clientDetail", "websocket.socket-io.enable",
                "websocket.ws.enable"} -> "Boolean"
      [] OTHER -> "String"

\* default: of each schema entry
SchemaDefault(k) ==
    CASE k = "api.host" -> "127.0.0.1"
      [] k = "api.port" -> 8194
      [] k = "api.authenticationMode" -> "APPLICATION_ONLY"
      [] k = "api.authenticationAppName" -> ""
      [] k = "port" -> 80
      [] k = "expiration" -> 5
      [] k = "https.enable" -> FALSE
      [] k = "https.ca" -> "../keys/bloomberg-ca-crt.pem"
      [] k = "https.cert" -> "../keys/hackathon-crt.pem"
      [] k = "https.key" -> "../keys/hackathon-key.pem"
      [] k = "https.crl" -> ""
      [] k = "logging.stdout" -> TRUE
      [] k = "logging.stdoutLevel" -> "info"
      [] k = "logging.logfile" -> "blpapi-http.log"
      [] k = "logging.logfileLevel" -> "trace"
      [] k = "logging.reqBody" -> FALSE
      [] k = "logging.clientDetail" -> FALSE
      [] k = "service.name" -> "BLPAPI-HTTP"
      [] k = "service.version" -> "1.0.0"
      [] k = "maxBodySize" -> 1024
      [] k = "throttle.burst" -> 100
      [] k = "throttle.rate" -> 50
      [] k = "websocket.socket-io.enable" -> TRUE
      [] k = "websocket.socket-io.port" -> 3001
      [] k = "websocket.ws.enable" -> TRUE
      [] k = "websocket.ws.port" -> 3002
      [] k = "longpoll.maxbuffersize" -> 50
      [] k = "longpoll.pollfrequency" -> 100
      [] k = "longpoll.polltimeout" -> 30000

\* Marks an entry that declares no env: binding.
NoEnv == "(none)"

\* A variant of SchemaEnv whose port entry repeats the variable of api.port.
SchemaEnvPortCopiedFromApiPort(k) ==
    CASE k = "api.host" -> "BLPAPI_HTTP_API_HOST"
      [] k = "api.port" -> "BLPAPI_HTTP_API_PORT"
      [] k = "api.authenticationMode" -> "BLPAPI_HTTP_API_AUTHENTICATION_MODE"
      [] k = "api.authenticationAppName" -> "BLPAPI_HTTP_API_AUTHENTICATION_APPNAME"
      [] k = "port" -> "BLPAPI_HTTP_API_PORT"
      [] OTHER -> NoEnv

\* env: of each schema entry
SchemaEnv(k) ==
    CASE k = "api.host" -> "BLPAPI_HTTP_API_HOST"
      [] k = "api.port" -> "BLPAPI_HTTP_API_PORT"
      [] k = "api.authenticationMode" -> "BLPAPI_HTTP_API_AUTHENTICATION_MODE"
      [] k = "api.authenticationAppName" -> "BLPAPI_HTTP_API_AUTHENTICATION_APPNAME"
      [] k = "port" -> "BLPAPI_HTTP_PORT"
      [] OTHER -> NoEnv

\* arg: of each schema entry
SchemaArg(k) ==
    CASE k = "api.host" -> "api-host"
      [] k = "api.port" -> "api-port"
      [] k = "api.authenticationMode" -> "api-authenticationMode"
      [] k = "api.authenticationAppName" -> "api-authenticationAppName"
      [] k = "port" -> "port"
      [] k = "expiration" -> "session-expiration"
      [] k = "https.enable" -> "https-enable"
      [] k = "https.ca" -> "https-ca"
      [] k = "https.cert" -> "https-cert"
      [] k = "https.key" -> "https-key"
      [] k = "https.crl" -> "https-crl"
      [] k = "logging.stdout" -> "logging-stdout"
      [] k = "logging.stdoutLevel" -> "logging-stdoutLevel"
      [] k = "logging.logfile" -> "logging-logfile"
      [] k = "logging.logfileLevel" -> "logging-logfileLevel"
      [] k = "logging.reqBody" -> "logging-reqBody"
      [] k = "logging.clientDetail" -> "logging-clientDetail"
      [] k = "service.name" -> "service-name"
      [] k = "service.version" -> "service-version"
      [] k = "maxBodySize" -> "maxBodySize"
      [] k = "throttle.burst" -> "throttle-burst"
      [] k = "throttle.rate" -> "throttle-rate"
      [] k = "websocket.socket-io.enable" -> "websocket-socket-io-enable"
      [] k = "websocket.socket-io.port" -> "websocket-socket-io-port"
      [] k = "websocket.ws.enable" -> "websocket-ws-enable"
      [] k = "websocket.ws.port" -> "websocket-ws-port"
      [] k = "longpoll.maxbuffersize" -> "longpoll-maxbuffersize"
      [] k = "longpoll.pollfrequency" -> "longpoll-pollfrequency"
      [] k = "longpoll.polltimeout" -> "longpoll-polltimeout"

(***************************************************************************)
(* The convict library: layered resolution and validation.                 *)
(***************************************************************************)

\* The store holding every entry's default.
Defaults == [k \in SchemaKeys |-> SchemaDefault(k)]

\* Environment variables override the entries that declare an env: name.
ImportEnvironment(conf) ==
    [k \in SchemaKeys |->
        IF SchemaEnv(k) # NoEnv /\ SchemaEnv(k) \in DOMAIN processEnv
        THEN processEnv[SchemaEnv(k)] ELSE conf[k]]

\* Command-line flags override the entries that declare an arg: name.
ImportArguments(conf) ==
    [k \in SchemaKeys |->
        IF SchemaArg(k) \in DOMAIN argv THEN argv[SchemaArg(k)] ELSE conf[k]]

\* convict(schema): defaults, then the environment, then the arguments.
Convict == ImportArguments(ImportEnvironment(Defaults))

\* conf.loadFile(path): the file's keys are overlaid, then the environment
\* and the arguments are applied again so that they keep their precedence.
LoadFile(conf) ==
    ImportArguments(ImportEnvironment(
        [k \in SchemaKeys |-> IF k \in DOMAIN cfgFile THEN cfgFile[k] ELSE conf[k]]))

\* The host strings that parse as an IP address.
IpAddresses == {"127.0.0.1", "10.20.30.40"}

\* The check of one value against its entry's format.
FormatOK(k, v) ==
    CASE SchemaFormat(k) = "port" -> v >= 1 /\ v <= 65535
      [] SchemaFormat(k) = "ipaddress" -> v \in IpAddresses
      [] OTHER -> TRUE

\* conf.validate(): every entry satisfies its format.
Validate(conf) == \A k \in SchemaKeys : FormatOK(k, conf[k])

(***************************************************************************)
(* The filesystem.                                                         *)
(***************************************************************************)

\* path.resolve(__dirname, p): the file a configured path names.
Resolve(p) == p

\* fs.readFileSync(path) returns a Buffer unless the file cannot be read.
CanRead(path) == path \notin fsUnreadable

\* The contents of the key, certificate and CA files (never rewritten here).
PemOf(path) == [pem |-> path]

\* The contents the CRL file can take.
CrlContents == 1..NumContents

(***************************************************************************)
(* The derived bundles (config.ts lines 255-349).                          *)
(***************************************************************************)
BundleNames ==
    {"loggerOptions", "bodyParserOptions", "throttleOptions", "serverOptions",
     "sessionOptions"}

\* lines 255-267
LoggerOptions(conf) ==
    LET fileStream == [level |-> conf["logging.logfileLevel"],
                       path |-> conf["logging.logfile"]]
        streams == IF conf["logging.stdout"]
                   THEN <<fileStream, [level |-> conf["logging.stdoutLevel"],
                                       stream |-> "process.stdout"]>>
                   ELSE <<fileStream>>
    IN  [name |-> conf["service.name"], streams |-> streams,
         serializers |-> "bunyan.stdSerializers"]

\* lines 270-273
BodyParserOptions(conf) ==
    [maxBodySize |-> conf["maxBodySize"], mapParams |-> FALSE]

\* lines 276-286
ThrottleOptions(conf) ==
    [burst |-> conf["throttle.burst"], rate |-> conf["throttle.rate"], ip |-> TRUE,
     overrides |-> ("127.0.0.1" :> [rate |-> 0, burst |-> 0])]

\* lines 289-293
ServerOptions(conf) ==
    [name |-> conf["service.name"], version |-> conf["service.version"],
     acceptable |-> <<"application/json">>]

\* A variant of HttpsServerOptions that leaves a file that cannot be read out.
HttpsServerOptionsSkippingUnreadable(conf) ==
    LET keyPath == Resolve(conf["https.key"])
        certPath == Resolve(conf["https.cert"])
        caPath == Resolve(conf["https.ca"])
        present == {f \in {"key", "cert", "ca"} :
                      CanRead(CASE f = "key" -> keyPath [] f = "cert" -> certPath
                                [] f = "ca" -> caPath)}
    IN  [ok |-> TRUE, failed |-> "",
         value |-> [f \in present |->
                      PemOf(CASE f = "key" -> keyPath [] f = "cert" -> certPath
                              [] f = "ca" -> caPath)]
                   @@ [requestCert |-> TRUE, rejectUnauthorized |-> TRUE]]

\* lines 295-304: the object literal reads key, cert and ca in this order; the
\* first read that throws ends the block before httpsServerOptions is assigned.
HttpsServerOptions(conf) ==
    LET keyPath == Resolve(conf["https.key"])
        certPath == Resolve(conf["https.cert"])
        caPath == Resolve(conf["https.ca"])
    IN  IF ~CanRead(keyPath) THEN [ok |-> FALSE, failed |-> keyPath]
        ELSE IF ~CanRead(certPath) THEN [ok |-> FALSE, failed |-> certPath]
        ELSE IF ~CanRead(caPath) THEN [ok |-> FALSE, failed |-> caPath]
        ELSE [ok |-> TRUE, failed |-> "",
              value |-> [key |-> PemOf(keyPath), cert |-> PemOf(certPath),
                         ca |-> PemOf(caPath), requestCert |-> TRUE,
                         rejectUnauthorized |-> TRUE]]

\* util.format('AuthenticationMode=%s;ApplicationAuthenticationType=...', ...)
FormatAuthenticationOptions(mode, appName) ==
    "AuthenticationMode=" \o mode \o ";"
        \o "ApplicationAuthenticationType=APPNAME_AND_KEY;"
        \o "ApplicationName=" \o appName

\* util.format('Bad value for api.authenticationMode: %s', mode)
FormatBadMode(mode) == "Bad value for api.authenticationMode: " \o mode

\* A variant of SessionOptions that does not check the authentication mode.
SessionOptionsWithoutModeCheck(conf) ==
    LET appName == conf["api.authenticationAppName"]
        mode == conf["api.authenticationMode"]
        blpapiSessionOptions == [serverHost |-> conf["api.host"],
                                 serverPort |-> conf["api.port"]]
    IN  IF "" # appName
        THEN [ok |-> TRUE, message |-> "",
              value |-> [blpapiSessionOptions |->
                            blpapiSessionOptions @@
                            [authenticationOptions |->
                                FormatAuthenticationOptions(mode, appName)],
                         authorizeOnStartup |-> TRUE]]
        ELSE [ok |-> TRUE, message |-> "",
              value |-> [blpapiSessionOptions |-> blpapiSessionOptions,
                         authorizeOnStartup |-> FALSE]]

\* A variant of SessionOptions that checks the mode whether or not an
\* application name is configured.
SessionOptionsCheckingModeAlways(conf) ==
    LET appName == conf["api.authenticationAppName"]
        mode == conf["api.authenticationMode"]
        blpapiSessionOptions == [serverHost |-> conf["api.host"],
                                 serverPort |-> conf["api.port"]]
    IN  IF "APPLICATION_ONLY" # mode
        THEN [ok |-> FALSE, message |-> FormatBadMode(mode)]
        ELSE IF "" # appName
        THEN [ok |-> TRUE, message |-> "",
              value |-> [blpapiSessionOptions |->
                            blpapiSessionOptions @@
                            [authenticationOptions |->
                                FormatAuthenticationOptions(mode, appName)],
                         authorizeOnStartup |-> TRUE]]
        ELSE [ok |-> TRUE, message |-> "",
              value |-> [blpapiSessionOptions |-> blpapiSessionOptions,
                         authorizeOnStartup |-> FALSE]]

\* lines 320-349
SessionOptions(conf) ==
    LET appName == conf["api.authenticationAppName"]
        mode == conf["api.authenticationMode"]
        blpapiSessionOptions == [serverHost |-> conf["api.host"],
                                 serverPort |-> conf["api.port"]]
    IN  IF "" # appName
        THEN IF "APPLICATION_ONLY" # mode
             THEN [ok |-> FALSE, message |-> FormatBadMode(mode)]
             ELSE [ok |-> TRUE, message |-> "",
                   value |-> [blpapiSessionOptions |->
                                 blpapiSessionOptions @@
                                 [authenticationOptions |->
                                     FormatAuthenticationOptions(mode, appName)],
                              authorizeOnStartup |-> TRUE]]
        ELSE [ok |-> TRUE, message |-> "",
              value |-> [blpapiSessionOptions |-> blpapiSessionOptions,
                         authorizeOnStartup |-> FALSE]]

(***************************************************************************)
(* get(name) (config.ts lines 14-21).                                      *)
(***************************************************************************)

\* Property names every object literal inherits from Object.prototype.
ObjectPrototypeKeys ==
    {"constructor", "toString", "valueOf", "hasOwnProperty", "toLocaleString"}

\* name in obj, for an object created by an object literal: own properties
\* and the properties inherited through the prototype chain.
In(name, obj) == name \in DOMAIN obj \/ name \in ObjectPrototypeKeys

\* The entries below an interior node of the schema tree.
KeysUnder(g) ==
    CASE g = "api" -> {"api.host", "api.port", "api.authenticationMode",
                       "api.authenticationAppName"}
      [] g = "https" -> {"https.enable", "https.ca", "https.cert", "https.key",
                         "https.crl"}
      [] g = "logging" -> {"logging.stdout", "logging.stdoutLevel", "logging.logfile",
                           "logging.logfileLevel", "logging.reqBody",
                           "logging.clientDetail"}
      [] g = "service" -> {"service.name", "service.version"}
      [] g = "throttle" -> {"throttle.burst", "throttle.rate"}
      [] g = "websocket" -> {"websocket.socket-io.enable", "websocket.socket-io.port",
                             "websocket.ws.enable", "websocket.ws.port"}
      [] g = "websocket.socket-io" -> {"websocket.socket-io.enable",
                                       "websocket.socket-io.port"}
      [] g = "websocket.ws" -> {"websocket.ws.enable", "websocket.ws.port"}
      [] g = "longpoll" -> {"longpoll.maxbuffersize", "longpoll.pollfrequency",
                            "longpoll.polltimeout"}

\* convictConf.get(name): the value at a dotted path of the schema tree (a
\* leaf's value or the subtree of an interior node), or an error when the
\* path names nothing.
ConvictGet(name) ==
    IF name \in SchemaKeys
    THEN [from |-> "convictConf", value |-> convictConf[name]]
    ELSE IF name \in SchemaGroups
    THEN [from |-> "convictConf",
          value |-> [k \in KeysUnder(name) |-> convictConf[k]]]
    ELSE [from |-> "error", value |-> "cannot find configuration param"]

\* otherConf[name] for a name that is in otherConf: the own property, or else
\* the member inherited from Object.prototype.
OtherConfAt(name) ==
    IF name \in DOMAIN otherConf
    THEN [from |-> "otherConf", value |-> otherConf[name]]
    ELSE [from |-> "Object.prototype", value |-> name]

\* get(name)
Get(name) ==
    IF In(name, otherConf) THEN OtherConfAt(name) ELSE ConvictGet(name)

(***************************************************************************)
(* Inputs.                                                                 *)
(***************************************************************************)
Subscribers == {"s1", "s2"}

CfgPath == "config.json"
CrlPath == "crl.pem"

\* The entries whose layered resolution is exercised.
LayeredKeys ==
    {"api.host", "api.port", "api.authenticationMode", "api.authenticationAppName",
     "port", "websocket.socket-io.port", "websocket.ws.port"}

\* The values an input source may carry for an entry.  A port is given on the
\* command line as any of the values around the ends of the port range, in
\* the environment and in the config file as one value inside it and one not.
InputValues(source, k) ==
    CASE k = "api.host" -> {"10.20.30.40", "not-an-ip"}
      [] k \in {"api.port", "port", "websocket.socket-io.port",
                "websocket.ws.port"} ->
            (CASE source = "argv" -> {0, 1, 65535, 70000}
               [] source = "env" -> {1, 70000}
               [] source = "file" -> {0, 65535})
      [] k = "api.authenticationMode" -> {"APPLICATION_ONLY", "USER_AND_APPLICATION"}
      [] k = "api.authenticationAppName" -> {"", "myapp"}

\* The name under which a source carries entry k: the flag on the command
\* line, the variable in the environment, the dotted key in the config file.
NameIn(source, k) ==
    CASE source = "argv" ->
            (CASE k = "api.host" -> "api-host"
               [] k = "api.port" -> "api-port"
               [] k = "api.authenticationMode" -> "api-authenticationMode"
               [] k = "api.authenticationAppName" -> "api-authenticationAppName"
               [] k = "port" -> "port"
               [] k = "websocket.socket-io.port" -> "websocket-socket-io-port"
               [] k = "websocket.ws.port" -> "websocket-ws-port")
      [] source = "env" ->
            (CASE k = "api.host" -> "BLPAPI_HTTP_API_HOST"
               [] k = "api.port" -> "BLPAPI_HTTP_API_PORT"
               [] k = "api.authenticationMode" -> "BLPAPI_HTTP_API_AUTHENTICATION_MODE"
               [] k = "api.authenticationAppName" ->
                      "BLPAPI_HTTP_API_AUTHENTICATION_APPNAME"
               [] k = "port" -> "BLPAPI_HTTP_PORT"
               [] OTHER -> NoEnv)
      [] source = "file" -> k

RECURSIVE SourcesOver(_, _)
\* Every assignment of input values, in one source, to a subset of the entries K.
SourcesOver(source, K) ==
    IF K = {} THEN {<<>>}
    ELSE LET k == CHOOSE x \in K : TRUE
             rest == SourcesOver(source, K \ {k})
         IN  rest \cup
             (IF NameIn(source, k) = NoEnv THEN {}
              ELSE {(NameIn(source, k) :> v) @@ f : v \in InputValues(source, k), f \in rest})

\* Startup inputs that exercise the layers: up to MaxOverriddenKeys entries
\* receive values from any combination of CLI, environment and config file;
\* the config file is named by --cfg or not, and is readable or not.
InitLayered ==
    \E K \in {S \in SUBSET LayeredKeys : Cardinality(S) <= MaxOverriddenKeys} :
        /\ \E a \in SourcesOver("argv", K), given \in BOOLEAN :
              /\ argv = IF given THEN ("cfg" :> CfgPath) @@ a ELSE a
              /\ fsUnreadable \in IF given THEN {{}, {CfgPath}} ELSE {{}}
        /\ processEnv \in SourcesOver("env", K)
        /\ cfgFile \in SourcesOver("file", K)

\* Startup inputs that exercise the bundles and the watcher: CLI flags only.
RuntimeArgs ==
    {a @@ b @@ c @@ d @@ e :
        a \in {<<>>, "api-authenticationAppName" :> "myapp"},
        b \in {<<>>, "api-authenticationMode" :> "USER_AND_APPLICATION"},
        c \in {<<>>, "https-enable" :> TRUE},
        d \in {<<>>, "https-crl" :> CrlPath},
        e \in {<<>>, "port" :> 0}}

InitRuntime ==
    /\ argv \in RuntimeArgs
    /\ processEnv = <<>>
    /\ cfgFile = <<>>
    /\ fsUnreadable \in SUBSET {SchemaDefault("https.key"), SchemaDefault("https.cert"),
                                SchemaDefault("https.ca"), CrlPath}

NoCycle == [outcome |-> "none", readable |-> FALSE, file |-> 0, listeners |-> {},
            delivered |-> [s \in Subscribers |-> 0], signal |-> <<>>,
            handlerSaw |-> 0, announced |-> 0, loaded |-> [buf |-> 0, contents |-> 0]]
NoRead == [buf |-> 0, contents |-> 0, after |-> 0]

Init ==
    /\ InitLayered \/ InitRuntime
    /\ crlFile = 1
    /\ phase = "unloaded"
    /\ startupError = [kind |-> "none", message |-> ""]
    /\ convictConf = <<>>
    /\ otherConf = <<>>
    /\ heap = <<>>
    /\ watching = FALSE
    /\ pendingEvents = 0
    /\ fsEvents = 0
    /\ listeners = {}
    /\ cycle = NoCycle
    /\ emitted = 0
    /\ lastRead = NoRead

(***************************************************************************)
(* The initialization block (config.ts lines 26-351).                      *)
(***************************************************************************)

NoError == [kind |-> "none", message |-> ""]

\* lines 294 and 307: the CRL is loaded and watched when https is enabled and
\* https.crl is a non-empty string.
CrlConfigured(conf) == conf["https.enable"] /\ conf["https.crl"] # ""

\* The state the initialization block leaves behind, whether it runs to the
\* end or is ended by an exception on the way.
StartupResult ==
    LET cfg == "cfg" \in DOMAIN argv
        conf == IF cfg /\ CanRead(Resolve(argv["cfg"])) THEN LoadFile(Convict)
                ELSE Convict
        none == [conf |-> conf, otherConf |-> <<>>, watching |-> FALSE, heap |-> <<>>]
        built == ("loggerOptions" :> LoggerOptions(conf))
                 @@ ("bodyParserOptions" :> BodyParserOptions(conf))
                 @@ ("throttleOptions" :> ThrottleOptions(conf))
                 @@ ("serverOptions" :> ServerOptions(conf))
        https == HttpsServerOptions(conf)
        crlPath == Resolve(conf["https.crl"])
        withHttps(hso) ==
            [built EXCEPT !["serverOptions"] =
                ServerOptions(conf) @@ [httpsServerOptions |-> hso]]
        session == SessionOptions(conf)
        \* lines 289-317
        server ==
            IF ~conf["https.enable"]
            THEN [none EXCEPT !.otherConf = built] @@ [error |-> NoError]
            ELSE IF ~https.ok
            THEN [none EXCEPT !.otherConf = built]
                 @@ [error |-> [kind |-> "ReadError", message |-> https.failed]]
            ELSE IF ~CrlConfigured(conf)
            THEN [none EXCEPT !.otherConf = withHttps(https.value)]
                 @@ [error |-> NoError]
            ELSE IF ~CanRead(crlPath)
            THEN [none EXCEPT !.otherConf = withHttps(https.value)]
                 @@ [error |-> [kind |-> "ReadError", message |-> crlPath]]
            ELSE [conf |-> conf,
                  otherConf |-> withHttps(https.value @@ [crl |-> 1]),
                  watching |-> TRUE,
                  heap |-> (1 :> crlFile),
                  error |-> NoError]
    IN  IF cfg /\ ~CanRead(Resolve(argv["cfg"]))
        THEN none @@ [error |-> [kind |-> "FileError", message |-> argv["cfg"]]]
        ELSE IF ~Validate(conf)
        THEN none @@ [error |-> [kind |-> "ValidationError", message |-> ""]]
        ELSE IF server.error # NoError
        THEN server
        ELSE IF ~session.ok
        THEN [server EXCEPT !.error = [kind |-> "Error", message |-> session.message]]
        ELSE [server EXCEPT !.otherConf =
                 server.otherConf @@ ("sessionOptions" :> session.value)]

\* The module is loaded: the initialization block runs once.
Startup ==
    /\ phase = "unloaded"
    /\ LET r == StartupResult
       IN  /\ phase' = IF r.error = NoError THEN "ready" ELSE "failed"
           /\ startupError' = r.error
           /\ convictConf' = r.conf
           /\ otherConf' = r.otherConf
           /\ watching' = r.watching
           /\ heap' = r.heap
           /\ cycle' = IF r.watching
                       THEN [cycle EXCEPT !.loaded = [buf |-> 1, contents |-> crlFile]]
                       ELSE cycle
    /\ UNCHANGED <<argv, processEnv, cfgFile, fsUnreadable, crlFile, pendingEvents,
                   fsEvents, listeners, emitted, lastRead>>

(***************************************************************************)
(* After startup: the watch callback (config.ts lines 311-315), the        *)
(* emitter's subscribers, readers of the bundle, and the filesystem.       *)
(***************************************************************************)

\* otherConf['serverOptions'].httpsServerOptions.crl, when the field exists.
HasCrl ==
    /\ "serverOptions" \in DOMAIN otherConf
    /\ "httpsServerOptions" \in DOMAIN otherConf["serverOptions"]
    /\ "crl" \in DOMAIN otherConf["serverOptions"].httpsServerOptions

Crl == otherConf["serverOptions"].httpsServerOptions.crl

\* The Buffer objects something still refers to.
Live(h, refs) == [b \in DOMAIN h \cap refs |-> h[b]]

\* A variant of WatchCallbackResult that emits before it re-reads the file.
WatchCallbackResultEmitFirst ==
    IF ~CanRead(CrlPath)
    THEN [threw |-> TRUE, crl |-> Crl, heap |-> heap, emits |-> 1,
          delivered |-> [s \in Subscribers |-> IF s \in listeners THEN 1 ELSE 0],
          handlerSaw |-> Crl, watching |-> TRUE,
          signal |-> <<"change", "https.crl">>]
    ELSE [threw |-> FALSE, crl |-> Crl + 1,
          heap |-> ((Crl + 1) :> crlFile) @@ heap, emits |-> 1,
          delivered |-> [s \in Subscribers |-> IF s \in listeners THEN 1 ELSE 0],
          handlerSaw |-> Crl, watching |-> TRUE,
          signal |-> <<"change", "https.crl">>]

\* A variant of WatchCallbackResult that emits once for every listener, so
\* that each listener is called as many times as there are listeners.
WatchCallbackResultEmitPerListener ==
    IF ~CanRead(CrlPath)
    THEN [threw |-> TRUE, crl |-> Crl, heap |-> heap, emits |-> 0,
          delivered |-> [s \in Subscribers |-> 0], handlerSaw |-> 0,
          watching |-> TRUE,
          signal |-> <<>>]
    ELSE [threw |-> FALSE, crl |-> Crl + 1,
          heap |-> ((Crl + 1) :> crlFile) @@ heap,
          emits |-> Cardinality(listeners),
          delivered |-> [s \in Subscribers |->
                            IF s \in listeners THEN Cardinality(listeners) ELSE 0],
          handlerSaw |-> Crl + 1, watching |-> TRUE,
          signal |-> <<"change", "https.crl">>]

\* A variant of WatchCallbackResult that catches the read error, installs an
\* empty Buffer and still signals the change.
WatchCallbackResultCatch ==
    IF ~CanRead(CrlPath)
    THEN [threw |-> FALSE, crl |-> Crl + 1,
          heap |-> ((Crl + 1) :> 0) @@ heap, emits |-> 1,
          delivered |-> [s \in Subscribers |-> IF s \in listeners THEN 1 ELSE 0],
          handlerSaw |-> Crl + 1, watching |-> TRUE,
          signal |-> <<"change", "https.crl">>]
    ELSE [threw |-> FALSE, crl |-> Crl + 1,
          heap |-> ((Crl + 1) :> crlFile) @@ heap, emits |-> 1,
          delivered |-> [s \in Subscribers |-> IF s \in listeners THEN 1 ELSE 0],
          handlerSaw |-> Crl + 1, watching |-> TRUE,
          signal |-> <<"change", "https.crl">>]

\* A variant of WatchCallbackResult whose watch ends with its first event.
WatchCallbackResultOneShot ==
    IF ~CanRead(CrlPath)
    THEN [threw |-> TRUE, crl |-> Crl, heap |-> heap, emits |-> 0,
          delivered |-> [s \in Subscribers |-> 0], handlerSaw |-> 0,
          watching |-> FALSE,
          signal |-> <<>>]
    ELSE [threw |-> FALSE, crl |-> Crl + 1,
          heap |-> ((Crl + 1) :> crlFile) @@ heap, emits |-> 1,
          delivered |-> [s \in Subscribers |-> IF s \in listeners THEN 1 ELSE 0],
          handlerSaw |-> Crl + 1, watching |-> FALSE,
          signal |-> <<"change", "https.crl">>]

\* One run of the watch callback.  readFileSync either throws, which ends the
\* callback before anything is assigned or emitted, or returns a new Buffer,
\* which is assigned to the crl field; emit then calls every listener once,
\* synchronously, and a listener reading the bundle sees the new Buffer.  The
\* callback never closes the watch.
WatchCallbackResult ==
    IF ~CanRead(CrlPath)
    THEN [threw |-> TRUE, crl |-> Crl, heap |-> heap, emits |-> 0,
          delivered |-> [s \in Subscribers |-> 0], handlerSaw |-> 0,
          watching |-> TRUE,
          signal |-> <<>>]
    ELSE [threw |-> FALSE, crl |-> Crl + 1,
          heap |-> ((Crl + 1) :> crlFile) @@ heap, emits |-> 1,
          delivered |-> [s \in Subscribers |-> IF s \in listeners THEN 1 ELSE 0],
          handlerSaw |-> Crl + 1, watching |-> TRUE,
          signal |-> <<"change", "https.crl">>]

\* fs.watch dispatches one pending change event to the callback.
WatchCallback ==
    /\ watching
    /\ pendingEvents > 0
    /\ pendingEvents' = pendingEvents - 1
    /\ LET r == WatchCallbackResult
       IN  /\ otherConf' = [otherConf EXCEPT
                               !["serverOptions"].httpsServerOptions.crl = r.crl]
           /\ heap' = Live(r.heap, {r.crl, lastRead.buf})
           /\ emitted' = emitted + r.emits
           /\ watching' = r.watching
           /\ cycle' = [outcome |-> IF r.threw THEN "threw" ELSE "reloaded",
                        readable |-> CanRead(CrlPath),
                        file |-> crlFile,
                        listeners |-> listeners,
                        delivered |-> r.delivered,
                        signal |-> r.signal,
                        handlerSaw |-> r.handlerSaw,
                        announced |-> IF r.emits > 0 THEN r.crl ELSE cycle.announced,
                        loaded |-> IF r.crl # Crl
                                   THEN [buf |-> r.crl, contents |-> crlFile]
                                   ELSE cycle.loaded]
    /\ UNCHANGED <<argv, processEnv, cfgFile, fsUnreadable, crlFile, phase,
                   startupError, convictConf, fsEvents, listeners, lastRead>>

\* Another module subscribes: emitter.on('change', handler).
Subscribe(s) ==
    /\ phase = "ready"
    /\ s \notin listeners
    /\ listeners' = listeners \cup {s}
    /\ UNCHANGED <<argv, processEnv, cfgFile, fsUnreadable, crlFile, phase,
                   startupError, convictConf, otherConf, heap, watching,
                   pendingEvents, fsEvents, cycle, emitted, lastRead>>

\* Another module unsubscribes: emitter.removeListener('change', handler).
Unsubscribe(s) ==
    /\ phase = "ready"
    /\ s \in listeners
    /\ listeners' = listeners \ {s}
    /\ UNCHANGED <<argv, processEnv, cfgFile, fsUnreadable, crlFile, phase,
                   startupError, convictConf, otherConf, heap, watching,
                   pendingEvents, fsEvents, cycle, emitted, lastRead>>

\* A consumer reads get('serverOptions').httpsServerOptions.crl and keeps the
\* Buffer it got.
ReadCrl ==
    /\ phase = "ready"
    /\ Get("serverOptions").from = "otherConf"
    /\ HasCrl
    /\ lastRead' = [buf |-> Crl, contents |-> heap[Crl], after |-> cycle.announced]
    /\ heap' = Live(heap, {Crl})
    /\ UNCHANGED <<argv, processEnv, cfgFile, fsUnreadable, crlFile, phase,
                   startupError, convictConf, otherConf, watching, pendingEvents,
                   fsEvents, listeners, cycle, emitted>>

\* The file https.crl names is replaced on disk; a watch on it raises a change
\* event.
CrlReplaced(c) ==
    /\ phase # "unloaded"
    /\ convictConf["https.crl"] # ""
    /\ c # crlFile
    /\ watching => fsEvents < MaxEvents
    /\ crlFile' = c
    /\ pendingEvents' = IF watching THEN pendingEvents + 1 ELSE pendingEvents
    /\ fsEvents' = IF watching THEN fsEvents + 1 ELSE fsEvents
    /\ UNCHANGED <<argv, processEnv, cfgFile, fsUnreadable, phase, startupError,
                   convictConf, otherConf, heap, watching, listeners, cycle,
                   emitted, lastRead>>

\* The file https.crl names becomes unreadable (removed or being rewritten)
\* or readable again.
CrlAccessChanged ==
    /\ phase # "unloaded"
    /\ convictConf["https.crl"] # ""
    /\ fsUnreadable' = IF CrlPath \in fsUnreadable THEN fsUnreadable \ {CrlPath}
                       ELSE fsUnreadable \cup {CrlPath}
    /\ UNCHANGED <<argv, processEnv, cfgFile, crlFile, phase, startupError,
                   convictConf, otherConf, heap, watching, pendingEvents, fsEvents,
                   listeners, cycle, emitted, lastRead>>

Next ==
    \/ Startup
    \/ WatchCallback
    \/ \E s \in Subscribers : Subscribe(s)
    \/ \E s \in Subscribers : Unsubscribe(s)
    \/ ReadCrl
    \/ \E c \in CrlContents : CrlReplaced(c)
    \/ CrlAccessChanged

Spec == Init /\ [][Next]_vars

(***************************************************************************)
(* Properties.                                                             *)
(***************************************************************************)

\* The entries that declare both a CLI flag and an environment variable.
EnvArgKeys ==
    {"api.host", "api.port", "api.authenticationMode", "api.authenticationAppName",
     "port"}

\* The value the precedence rule gives an entry: CLI, else environment, else
\* the file named by --cfg, else the default.
Precedence(k, default) ==
    IF NameIn("argv", k) \in DOMAIN argv THEN argv[NameIn("argv", k)]
    ELSE IF NameIn("env", k) \in DOMAIN processEnv THEN processEnv[NameIn("env", k)]
    ELSE IF "cfg" \in DOMAIN argv /\ k \in DOMAIN cfgFile THEN cfgFile[k]
    ELSE default

\* C1: after startup, get(key) of every entry that declares a CLI flag and an
\* environment variable is the CLI value if supplied, else the environment
\* value if set, else the value in the file loaded through --cfg if the key is
\* present there, else the schema default.
C1_Precedence ==
    phase = "ready" =>
        /\ Get("api.host") =
              [from |-> "convictConf", value |-> Precedence("api.host", "127.0.0.1")]
        /\ Get("api.port") =
              [from |-> "convictConf", value |-> Precedence("api.port", 8194)]
        /\ Get("api.authenticationMode") =
              [from |-> "convictConf",
               value |-> Precedence("api.authenticationMode", "APPLICATION_ONLY")]
        /\ Get("api.authenticationAppName") =
              [from |-> "convictConf",
               value |-> Precedence("api.authenticationAppName", "")]
        /\ Get("port") = [from |-> "convictConf", value |-> Precedence("port", 80)]

\* C1 witness: a started process whose listen port is given on the CLI, in the
\* environment and in the loaded config file, with three different values.
C1_Witness ==
    /\ phase = "ready"
    /\ "cfg" \in DOMAIN argv
    /\ "port" \in DOMAIN argv
    /\ "BLPAPI_HTTP_PORT" \in DOMAIN processEnv
    /\ "port" \in DOMAIN cfgFile
    /\ argv["port"] # processEnv["BLPAPI_HTTP_PORT"]
    /\ argv["port"] # cfgFile["port"]
    /\ processEnv["BLPAPI_HTTP_PORT"] # cfgFile["port"]

\* The session bundle get('sessionOptions') returns.
Session == Get("sessionOptions").value

\* C2: after a successful startup the session bundle carries
\* authenticationOptions exactly when api.authenticationAppName is non-empty,
\* authorizeOnStartup is true exactly when it does, and then the mode is
\* APPLICATION_ONLY and the string is
\* AuthenticationMode=<mode>;ApplicationAuthenticationType=APPNAME_AND_KEY;ApplicationName=<appName>.
C2_AuthenticationOptions ==
    phase = "ready" =>
        LET appName == Get("api.authenticationAppName").value
            mode == Get("api.authenticationMode").value
            present == "authenticationOptions" \in DOMAIN Session.blpapiSessionOptions
        IN  /\ Get("sessionOptions").from = "otherConf"
            /\ present <=> appName # ""
            /\ Session.authorizeOnStartup <=> present
            /\ present =>
                  /\ mode = "APPLICATION_ONLY"
                  /\ Session.blpapiSessionOptions.authenticationOptions =
                        "AuthenticationMode=" \o mode
                        \o ";ApplicationAuthenticationType=APPNAME_AND_KEY;ApplicationName="
                        \o appName

\* C2 witness: a started process with an application name configured.
C2_Witness ==
    /\ phase = "ready"
    /\ "authenticationOptions" \in DOMAIN Session.blpapiSessionOptions
    /\ Session.blpapiSessionOptions.authenticationOptions =
          "AuthenticationMode=APPLICATION_ONLY;ApplicationAuthenticationType=APPNAME_AND_KEY;ApplicationName=myapp"

\* An application name is configured together with an unsupported mode.
BadMode ==
    /\ convictConf["api.authenticationAppName"] # ""
    /\ convictConf["api.authenticationMode"] # "APPLICATION_ONLY"

\* The error that names the bad mode.
BadModeError ==
    [kind |-> "Error",
     message |-> "Bad value for api.authenticationMode: "
                 \o convictConf["api.authenticationMode"]]

\* C3 as stated: with an application name and any mode other than
\* APPLICATION_ONLY startup fails with the error naming the bad mode and
\* get('sessionOptions') never returns a bundle; with an empty application name
\* startup never fails on account of the mode.
C3_Original ==
    phase # "unloaded" =>
        /\ BadMode => /\ phase = "failed"
                      /\ startupError = BadModeError
                      /\ Get("sessionOptions").from # "otherConf"
        /\ convictConf["api.authenticationAppName"] = "" => startupError.kind # "Error"

\* C3 amended: with an application name and any mode other than
\* APPLICATION_ONLY startup fails and get('sessionOptions') never returns a
\* bundle; the error is the one naming the bad mode unless the config file,
\* validation or a read of the key, certificate, CA or CRL file failed first.
\* With an empty application name startup never fails on account of the mode.
C3_BadModeFails ==
    phase # "unloaded" =>
        /\ BadMode => /\ phase = "failed"
                      /\ \/ startupError = BadModeError
                         \/ startupError.kind \in {"FileError", "ValidationError",
                                                   "ReadError"}
                      /\ Get("sessionOptions").from # "otherConf"
        /\ startupError.kind = "Error" => BadMode /\ startupError = BadModeError
        /\ convictConf["api.authenticationAppName"] = "" => startupError.kind # "Error"

\* C3 witness: startup ended by the error that names the bad mode.
C3_Witness ==
    /\ phase = "failed"
    /\ startupError =
          [kind |-> "Error",
           message |-> "Bad value for api.authenticationMode: USER_AND_APPLICATION"]

\* The key, certificate and CA files of the configuration.
TlsFiles ==
    {Resolve(convictConf["https.key"]), Resolve(convictConf["https.cert"]),
     Resolve(convictConf["https.ca"])}

\* C4: after a successful startup serverOptions has no httpsServerOptions
\* exactly when https.enable is false and has key, cert and ca, all three,
\* exactly when it is true; when https.enable is true and one of the three
\* files cannot be read, startup fails and no httpsServerOptions is built.
C4_AllOrNothing ==
    /\ phase = "ready" =>
          LET server == Get("serverOptions").value
              enable == Get("https.enable").value
          IN  /\ Get("serverOptions").from = "otherConf"
              /\ "httpsServerOptions" \notin DOMAIN server <=> ~enable
              /\ "httpsServerOptions" \in DOMAIN server =>
                    /\ enable
                    /\ {"key", "cert", "ca"} \subseteq DOMAIN server.httpsServerOptions
                    /\ server.httpsServerOptions.key = PemOf("../keys/hackathon-key.pem")
                    /\ server.httpsServerOptions.cert = PemOf("../keys/hackathon-crt.pem")
                    /\ server.httpsServerOptions.ca = PemOf("../keys/bloomberg-ca-crt.pem")
    /\ (phase # "unloaded" /\ convictConf["https.enable"]
                           /\ TlsFiles \cap fsUnreadable # {}) =>
          /\ phase = "failed"
          /\ "serverOptions" \in DOMAIN otherConf =>
                "httpsServerOptions" \notin DOMAIN otherConf["serverOptions"]

\* C4 witness: a started process with https enabled and all three materials.
C4_Witness ==
    /\ phase = "ready"
    /\ convictConf["https.enable"]
    /\ {"key", "cert", "ca"} \subseteq
          DOMAIN otherConf["serverOptions"].httpsServerOptions

\* What a run of the watch callback must leave behind according to C5: the
\* crl field holds the contents the file had, and every subscriber registered
\* at the time got one 'change' notification naming https.crl, every other
\* none.
ReloadedAndNotified ==
    /\ HasCrl
    /\ heap[Crl] = cycle.file
    /\ cycle.signal = <<"change", "https.crl">>
    /\ \A s \in Subscribers :
          cycle.delivered[s] = IF s \in cycle.listeners THEN 1 ELSE 0

Names ==
    BundleNames \cup SchemaKeys \cup SchemaGroups \cup ObjectPrototypeKeys
    \cup {"serverOptions.name", "sessionOptions.authorizeOnStartup", "nosuch.key",
          "https.nosuch", ""}

\* C6 as stated: get(name) returns a derived bundle exactly for the five bundle
\* names, and for every other name exactly what the schema store's lookup
\* gives, an error when the schema has no such key.
C6_Claim ==
    phase = "ready" =>
        \A name \in Names :
            IF name \in BundleNames
            THEN Get(name).from = "otherConf" /\ Get(name).value = otherConf[name]
            ELSE Get(name).from = ConvictGet(name).from
                 /\ Get(name).value = ConvictGet(name).value
                 /\ (name \notin SchemaKeys \cup SchemaGroups
                        => Get(name).from = "error")

PortKeys ==
    {"api.port", "port", "websocket.socket-io.port", "websocket.ws.port"}

\* C7: a port-format entry resolved outside 1..65535 fails validation, which
\* ends startup before any bundle is built; validation fails on no entry whose
\* value is inside 1..65535.
C7_PortRange ==
    (phase # "unloaded" /\ startupError.kind # "FileError") =>
        /\ (\E k \in PortKeys : convictConf[k] < 1 \/ convictConf[k] > 65535) =>
              /\ phase = "failed"
              /\ startupError.kind = "ValidationError"
              /\ DOMAIN otherConf = {}
              /\ \A name \in BundleNames : Get(name).from # "otherConf"
        /\ startupError.kind = "ValidationError" =>
              \/ \E k \in PortKeys : convictConf[k] \notin 1..65535
              \/ convictConf["api.host"] = "not-an-ip"

\* C7 witness: startup ended by validation because a port is 70000.
C7_Witness ==
    /\ phase = "failed"
    /\ startupError.kind = "ValidationError"
    /\ convictConf["websocket.ws.port"] = 70000

\* C8: the crl field always refers to the Buffer of the latest completed read
\* (at startup or by a reload), unchanged since it was read; a Buffer a reader
\* obtained keeps the contents it had; the listeners of a reload see that
\* reload's Buffer, and a read after a reload's notification returns that
\* reload's Buffer or a later one.
C8_Snapshots ==
    /\ HasCrl =>
          /\ Crl \in DOMAIN heap
          /\ Crl = cycle.loaded.buf
          /\ heap[Crl] = cycle.loaded.contents
          /\ Crl >= cycle.announced
    /\ cycle.outcome = "reloaded" => cycle.handlerSaw >= cycle.announced
    /\ lastRead.buf # 0 =>
          /\ lastRead.buf \in DOMAIN heap
          /\ heap[lastRead.buf] = lastRead.contents
          /\ lastRead.contents \in CrlContents
          /\ lastRead.buf >= lastRead.after

\* C8 witness: a reader still holds the Buffer of the first reload, obtained
\* after that reload's notification, while a later reload has installed
\* another Buffer with other contents.
C8_Witness ==
    /\ lastRead.buf = 2
    /\ lastRead.after = 2
    /\ HasCrl
    /\ Crl = 3
    /\ heap[3] # heap[2]

\* The watch is expected by the configuration alone.
CrlRequested == convictConf["https.enable"] /\ convictConf["https.crl"] # ""

\* C9 as stated: the watch is registered exactly when https.enable is true and
\* https.crl is non-empty; otherwise there is no crl field, no watch and no
\* notification; a registered watch has every event dispatched.
C9_Original ==
    phase # "unloaded" =>
        /\ watching <=> CrlRequested
        /\ ~CrlRequested => ~HasCrl /\ emitted = 0
        /\ (watching /\ pendingEvents > 0) => ENABLED WatchCallback

\* The state part of C9 as amended.
C9_State ==
    /\ phase = "unloaded" => ~watching /\ emitted = 0
    /\ phase # "unloaded" =>
          /\ watching <=>
                /\ CrlRequested
                /\ startupError.kind \notin {"FileError", "ValidationError",
                                             "ReadError"}
          /\ ~CrlRequested => ~HasCrl /\ ~watching /\ emitted = 0
          /\ ~watching => emitted = 0 /\ pendingEvents = 0
          /\ HasCrl <=> watching
          /\ (watching /\ pendingEvents > 0) => ENABLED WatchCallback

\* C9 amended: the watch is registered exactly when https.enable is true,
\* https.crl is non-empty and startup reached the registration, that is, the
\* config file, validation and the reads of the key, certificate, CA and CRL
\* files did not fail; in every other case there is no crl field, no watch and
\* no 'change' notification ever.  Once registered the watch stays registered
\* and every pending filesystem event can be dispatched to the callback.
C9_WatchArmed == []C9_State /\ [][watching => watching']_vars

\* C9 witness: the watch has reloaded once and has another event pending.
C9_Witness ==
    /\ watching
    /\ cycle.outcome = "reloaded"
    /\ pendingEvents > 0

\* C10: when the read fails in a run of the watch callback, the crl field keeps
\* the Buffer it had, with its contents, nothing is emitted for that event,
\* the error leaves the callback, and the watch stays registered.
C10_FailedReload ==
    [][(pendingEvents' < pendingEvents /\ ~CanRead(CrlPath)) =>
          /\ HasCrl'
          /\ Crl' = Crl
          /\ heap'[Crl'] = heap[Crl]
          /\ emitted' = emitted
          /\ cycle'.outcome = "threw"
          /\ \A s \in Subscribers : cycle'.delivered[s] = 0
          /\ watching']_vars

\* C10 witness: the latest run of the callback threw, after an earlier reload,
\* and the bundle still holds that reload's Buffer.
C10_Witness ==
    /\ cycle.outcome = "threw"
    /\ watching
    /\ HasCrl
    /\ Crl = 2
    /\ heap[Crl] = cycle.loaded.contents
    /\ emitted = 1

====
